---- MODULE Spec2Model ----
(***************************************************************************)
(* Recursive cached sampling of uncertain values (src/recursive_cache.rs). *)
(*                                                                         *)
(* Uncertain<f64>::take_samples_cached_recursive(count) collects the leaf  *)
(* nodes of the computation graph, makes the sample cache hold `count`     *)
(* samples of every leaf, evaluates the graph once per sample index        *)
(* against the cached leaf samples, stores the result under the handle's   *)
(* own id and returns it.  The sample cache (crate::cache::dist_cache,     *)
(* Uncertain::take_samples_cached) is not part of recursive_cache.rs; it   *)
(* is modelled from its specified contract: get_or_compute returns the     *)
(* stored vector when the key is present and otherwise runs the producer   *)
(* once, stores its result and returns it, atomically per key.             *)
(*                                                                         *)
(* f64 values are modelled as integers; the leaves' sample closures are    *)
(* nondeterministic draws from 1..MaxDraw.                                 *)
(***************************************************************************)
EXTENDS Integers, Sequences, FiniteSets, TLC

\* ---------------------------------------------------------------- bounds
NumProcs == 2      \* concurrent callers
MaxCount == 2      \* requested sample counts range over 0..MaxCount
MaxDraw == 2       \* a leaf's sample closure returns a value of 1..MaxDraw
MaxCalls == 2      \* calls of take_samples_cached_recursive in one behaviour
MaxExternal == 1   \* cache operations made by other paths in one behaviour

Procs == 1..NumProcs
Counts == 0..MaxCount
Values == 1..MaxDraw

\* ------------------------------------------------- computation graphs
\* ComputationNode<f64>: Leaf {id, sample}, BinaryOp {left, right, operation},
\* UnaryOp {operand, operation}, Conditional {condition, if_true, if_false}.
\* The boolean condition graph is never visited by this file (see
\* collect_leaves_recursive_bool), so it is left out of the node.
Leaf(id) == [kind |-> "Leaf", id |-> id]
BinaryOp(op, l, r) == [kind |-> "BinaryOp", operation |-> op, left |-> l, right |-> r]
UnaryOp(op, x) == [kind |-> "UnaryOp", operation |-> op, operand |-> x]
Conditional(t, f) == [kind |-> "Conditional", if_true |-> t, if_false |-> f]

LeafIds == {"s1", "s2"}

\* The handles (Uncertain<f64> values) of the model: id and node.  A handle
\* built by Uncertain::new wraps a bare Leaf carrying the handle's own id;
\* every derived handle has a fresh id of its own.
HandleIds == {"s1", "hSub", "hMap", "hAdd", "hCond"}

NodeOf(h) ==
    CASE h = "s1" -> Leaf("s1")
      [] h = "hSub" -> BinaryOp("Sub", Leaf("s1"), Leaf("s1"))
      [] h = "hMap" -> UnaryOp("MapDouble", Leaf("s1"))
      [] h = "hAdd" -> BinaryOp("Add", UnaryOp("Filter", Leaf("s1")), Leaf("s2"))
      [] h = "hCond" -> BinaryOp("Add", Leaf("s1"),
                                 UnaryOp("Filter", Conditional(Leaf("s2"), Leaf("s1"))))

\* BinaryOperation::apply
Apply(op, l, r) ==
    CASE op = "Sub" -> l - r
      [] op = "Add" -> l + r

\* the closure of UnaryOperation::Map
MapFunc(op, x) ==
    CASE op = "MapDouble" -> 2 * x

\* ------------------------------------------------------- sample cache
\* dist_cache(): (id, count) -> Vec<f64>.  The cache is a function whose
\* domain is the set of keys that hold an entry.
Key(id, count) == <<id, count>>

Has(c, key) == key \in DOMAIN c

\* dist_cache().get_or_compute_samples(id, count, producer): the cache after
\* the call.  `produced` is what the producer returns if it is run.
GetOrComputeSamples(c, key, produced) ==
    IF Has(c, key) THEN c ELSE c @@ (key :> produced)

\* the vectors a leaf's producer, self.samples().take(count).collect(), can
\* return: `count` draws of the sample closure
DrawnVectors(count) == [1..count -> Values]

\* ------------------------------------------------------ collect_leaves
\* Variant of collect_leaves_recursive: the BinaryOp arm walks only the left
\* child.
RECURSIVE collect_leaves_left_only(_)
collect_leaves_left_only(node) ==
    CASE node.kind = "Leaf" -> {node.id}
      [] node.kind = "BinaryOp" -> collect_leaves_left_only(node.left)
      [] node.kind = "UnaryOp" -> collect_leaves_left_only(node.operand)
      [] node.kind = "Conditional" ->
            collect_leaves_left_only(node.if_true) \cup collect_leaves_left_only(node.if_false)

\* The keys of the HashMap built by collect_leaves: each value is the
\* Uncertain wrapper of the leaf with that id, so the key set stands for the
\* map.  The condition of a Conditional is skipped, its branches are walked.
RECURSIVE collect_leaves_recursive(_)
collect_leaves_recursive(node) ==
    CASE node.kind = "Leaf" -> {node.id}
      [] node.kind = "BinaryOp" ->
            collect_leaves_recursive(node.left) \cup collect_leaves_recursive(node.right)
      [] node.kind = "UnaryOp" -> collect_leaves_recursive(node.operand)
      [] node.kind = "Conditional" ->
            collect_leaves_recursive(node.if_true) \cup collect_leaves_recursive(node.if_false)

collect_leaves(node) == collect_leaves_recursive(node)

\* ------------------------------------------- evaluate_with_cached_leaves
\* A leaf occurrence is named by its path from the root (1 = left child,
\* operand or if_true, 2 = right child or if_false).  The function reads the
\* cache once in every Leaf arm it enters and holds no lock between two
\* arms, so an evaluation is a sequence of steps, one per Leaf arm.  `vals`
\* maps the occurrences whose arm has returned to the value it returned.

\* Variant of MissingIndex: the cached value is never found, so every leaf
\* is sampled directly.
MissingIndexAlways(cached_samples, sample_idx) == TRUE

\* cached_samples.get(sample_idx) is None
MissingIndex(cached_samples, sample_idx) == sample_idx + 1 > Len(cached_samples)

\* Variant of LeafFallsBack: the lookup in leaf_map is inverted, so a
\* collected leaf is sampled directly.
LeafFallsBackInverted(id, leaf_map, c, sample_idx, sample_count) ==
    \/ id \in leaf_map
    \/ MissingIndex(c[Key(id, sample_count)], sample_idx)

\* The Leaf arm falls through to "Fallback to direct sampling": the leaf is
\* not in leaf_map, or its cached vector has no element at sample_idx.
LeafFallsBack(id, leaf_map, c, sample_idx, sample_count) ==
    \/ id \notin leaf_map
    \/ MissingIndex(c[Key(id, sample_count)], sample_idx)

\* The cache after the Leaf arm's get_or_compute_samples, which is made only
\* for a leaf found in leaf_map; `produced` is what its producer returns if
\* it is run.
LeafArmCache(id, leaf_map, c, sample_count, produced) ==
    IF id \in leaf_map THEN GetOrComputeSamples(c, Key(id, sample_count), produced) ELSE c

\* The Leaf arm's get_or_compute_samples runs its producer.
LeafArmProduces(id, leaf_map, c, sample_count) ==
    id \in leaf_map /\ ~Has(c, Key(id, sample_count))

\* The value the Leaf arm returns.  c is the cache after the arm's
\* get_or_compute_samples; fresh is what sample() returns if the arm falls
\* back.
EvalLeaf(id, leaf_map, c, sample_idx, sample_count, fresh) ==
    IF LeafFallsBack(id, leaf_map, c, sample_idx, sample_count)
    THEN fresh
    ELSE c[Key(id, sample_count)][sample_idx + 1]

\* Where an evaluation stands, given the Leaf arms that have returned: it
\* has a value, it has panicked, or it is at the Leaf arm of the occurrence
\* (path, id).  ops counts the operator closures (the operation of a BinaryOp,
\* the function of a Map) applied on the way.
Value(v, ops) == [kind |-> "value", val |-> v, ops |-> ops, path |-> <<>>, id |-> ""]
Panicked(ops) == [kind |-> "panic", val |-> 0, ops |-> ops, path |-> <<>>, id |-> ""]
AtLeaf(path, id) == [kind |-> "leaf", val |-> 0, ops |-> 0, path |-> path, id |-> id]

\* Variant of EvalUnary: the Map closure is not applied, the operand's
\* value is passed through as for Filter.
EvalUnaryPassThrough(operation, operand_val) == operand_val

\* The UnaryOp arm, given the operand's value: Map applies the closure,
\* Filter passes the value through.
EvalUnary(operation, operand_val) ==
    CASE operation = "Filter" -> operand_val
      [] OTHER -> MapFunc(operation, operand_val)

RECURSIVE evaluate_with_cached_leaves(_, _, _)

\* Variant of EvalConditional: the arm evaluates the if_true branch instead
\* of panicking.
EvalConditionalTakesTrue(node, path, vals) ==
    evaluate_with_cached_leaves(node.if_true, Append(path, 1), vals)

\* The Conditional arm: panic!("Conditional nodes not supported ...").
EvalConditional(node, path, vals) == Panicked(0)

\* The left child is evaluated before the right one, the operator is applied
\* when both have a value; a panic in a child ends the evaluation.
evaluate_with_cached_leaves(node, path, vals) ==
    CASE node.kind = "Leaf" ->
            IF path \in DOMAIN vals THEN Value(vals[path], 0) ELSE AtLeaf(path, node.id)
      [] node.kind = "BinaryOp" ->
            LET l == evaluate_with_cached_leaves(node.left, Append(path, 1), vals)
                r == evaluate_with_cached_leaves(node.right, Append(path, 2), vals)
            IN  IF l.kind # "value" THEN l
                ELSE IF r.kind # "value" THEN [r EXCEPT !.ops = l.ops + r.ops]
                ELSE Value(Apply(node.operation, l.val, r.val), l.ops + r.ops + 1)
      [] node.kind = "UnaryOp" ->
            LET x == evaluate_with_cached_leaves(node.operand, Append(path, 1), vals)
            IN  IF x.kind # "value" THEN x
                ELSE Value(EvalUnary(node.operation, x.val),
                           x.ops + (IF node.operation = "Filter" THEN 0 ELSE 1))
      [] node.kind = "Conditional" -> EvalConditional(node, path, vals)

\* ---------------------------------------------------------------- state
VARIABLES
    cache,      \* dist_cache(): key -> stored vector
    pc,         \* per caller: "idle", "populate", "eval", "returned", "panicked"
                \* (the Conditional arm's panic), "failed" (a closure panicked)
    hnd,        \* per caller: the handle (self) of the current call
    cnt,        \* per caller: count
    leaf_map,   \* per caller: the ids collected by collect_leaves
    todo,       \* per caller: leaves the populate loop has still to visit
    results,    \* per caller: the results vector (dropped when the call ends)
    reads,      \* per caller: path -> value of the Leaf arms that have returned
                \* in the evaluation of the current index
    ret,        \* per caller: the vector the last completed call returned
    draws,      \* per leaf key: invocations of the leaf's sample closure for it
    rootAtCall, \* per caller: the root key held an entry when the call began
    accessed,   \* per caller: the keys the call has passed to the cache
    evalDrew,   \* per caller: the call invoked a sample closure while evaluating
    obs,        \* per caller: (leaf id, value) pairs the Leaf arms returned at the
                \* index evaluated last
    returned,   \* (handle, count, vector) of every completed call
    otherPath,  \* keys whose entry was stored by another path than this function
    calls       \* calls begun

vars == <<cache, pc, hnd, cnt, leaf_map, todo, results, reads, ret, draws, rootAtCall,
          accessed, evalDrew, obs, returned, otherPath, calls>>

procVars == <<pc, hnd, cnt, leaf_map, todo, results, reads, ret, rootAtCall, accessed,
              evalDrew, obs>>

LeafKeys == LeafIds \X Counts

Init ==
    /\ cache = <<>>
    /\ pc = [p \in Procs |-> "idle"]
    /\ hnd = [p \in Procs |-> "s1"]
    /\ cnt = [p \in Procs |-> 0]
    /\ leaf_map = [p \in Procs |-> {}]
    /\ todo = [p \in Procs |-> {}]
    /\ results = [p \in Procs |-> <<>>]
    /\ reads = [p \in Procs |-> <<>>]
    /\ ret = [p \in Procs |-> <<>>]
    /\ draws = [k \in LeafKeys |-> 0]
    /\ rootAtCall = [p \in Procs |-> FALSE]
    /\ accessed = [p \in Procs |-> {}]
    /\ evalDrew = [p \in Procs |-> FALSE]
    /\ obs = [p \in Procs |-> {}]
    /\ returned = {}
    /\ otherPath = {}
    /\ calls = 0

\* ------------------------------------ take_samples_cached_recursive
\* Variant of LoopDone: the loop runs over 0..=count.
LoopDoneInclusive(sample_idx, count) == sample_idx > count

\* The loop `for sample_idx in 0..count` has run to its end.
LoopDone(sample_idx, count) == sample_idx >= count

\* The value the function returns: the local results vector, not the
\* vector get_or_compute_samples returned.
ReturnValue(local_results, stored) == local_results

\* Variant of StoreRoot: the root entry is written unconditionally (an
\* insert instead of get_or_compute), replacing what the key held.
StoreRootOverwrite(c, key, local_results) ==
    [k \in DOMAIN c \cup {key} |-> IF k = key THEN local_results ELSE c[k]]

\* dist_cache().get_or_compute_samples(self.id, count, || results.clone()):
\* the cache after the call.
StoreRoot(c, key, local_results) == GetOrComputeSamples(c, key, local_results)

\* A caller is outside a call.
Free(p) == pc[p] \in {"idle", "returned", "panicked", "failed"}

\* Entry: collect_leaves(&self.node).  There is no probe of the cache for
\* (self.id, count): the function always goes on to the leaves.  Callers are
\* interchangeable: a new call is taken by the lowest-numbered free caller.
Call(p, h, count) ==
    /\ calls < MaxCalls
    /\ Free(p)
    /\ \A q \in Procs : q < p => ~Free(q)
    /\ calls' = calls + 1
    /\ hnd' = [hnd EXCEPT ![p] = h]
    /\ cnt' = [cnt EXCEPT ![p] = count]
    /\ leaf_map' = [leaf_map EXCEPT ![p] = collect_leaves(NodeOf(h))]
    /\ todo' = [todo EXCEPT ![p] = collect_leaves(NodeOf(h))]
    /\ results' = [results EXCEPT ![p] = <<>>]
    /\ reads' = [reads EXCEPT ![p] = <<>>]
    /\ ret' = [ret EXCEPT ![p] = <<>>]
    /\ rootAtCall' = [rootAtCall EXCEPT ![p] = Has(cache, Key(h, count))]
    /\ accessed' = [accessed EXCEPT ![p] = {}]
    /\ evalDrew' = [evalDrew EXCEPT ![p] = FALSE]
    /\ obs' = [obs EXCEPT ![p] = {}]
    /\ pc' = [pc EXCEPT ![p] = IF collect_leaves(NodeOf(h)) = {} THEN "eval" ELSE "populate"]
    /\ UNCHANGED <<cache, draws, returned, otherPath>>

\* Variant of PopulateCount: the leaves are asked for one sample fewer.
PopulateCountShort(count) == IF count = 0 THEN 0 ELSE count - 1

\* The count the populate loop passes to take_samples_cached.
PopulateCount(count) == count

\* One iteration of `for leaf_uncertain in leaf_map.values()`:
\* leaf_uncertain.take_samples_cached(count), that is get_or_compute_samples
\* of the leaf's key with `count` draws as the producer.  HashMap iteration
\* order is unspecified: any remaining leaf may come next.
PopulateLeaf(p, id) ==
    /\ pc[p] = "populate"
    /\ id \in todo[p]
    /\ \E produced \in DrawnVectors(PopulateCount(cnt[p])) :
          cache' = GetOrComputeSamples(cache, Key(id, PopulateCount(cnt[p])), produced)
    /\ draws' = [draws EXCEPT ![Key(id, PopulateCount(cnt[p]))] =
                    IF Has(cache, Key(id, PopulateCount(cnt[p]))) THEN @
                    ELSE @ + PopulateCount(cnt[p])]
    /\ accessed' = [accessed EXCEPT ![p] = @ \cup {Key(id, PopulateCount(cnt[p]))}]
    /\ todo' = [todo EXCEPT ![p] = @ \ {id}]
    /\ pc' = [pc EXCEPT ![p] = IF todo[p] = {id} THEN "eval" ELSE "populate"]
    /\ UNCHANGED <<hnd, cnt, leaf_map, results, reads, ret, rootAtCall, evalDrew, obs,
                   returned, otherPath, calls>>

\* The key of the call's own entry.
RootKey(p) == Key(hnd[p], cnt[p])

\* Variant of UnwindCache: the values pushed so far are stored under the
\* root key when the evaluation panics.
UnwindCacheStoresPartial(c, key, partial) == GetOrComputeSamples(c, key, partial)

\* The cache when a panic leaves the evaluation loop: the store after the
\* loop is not reached, the partial results vector is dropped.
UnwindCache(c, key, partial) == c

\* The paths of the leaf occurrences of a graph, and the maps `vals` an
\* evaluation of the handle's graph can have reached.
RECURSIVE LeafPaths(_, _)
LeafPaths(node, path) ==
    CASE node.kind = "Leaf" -> {path}
      [] node.kind = "BinaryOp" ->
            LeafPaths(node.left, Append(path, 1)) \cup LeafPaths(node.right, Append(path, 2))
      [] node.kind = "UnaryOp" -> LeafPaths(node.operand, Append(path, 1))
      [] node.kind = "Conditional" ->
            LeafPaths(node.if_true, Append(path, 1)) \cup LeafPaths(node.if_false, Append(path, 2))

ReadsOf(h) == UNION {[S -> Values] : S \in SUBSET LeafPaths(NodeOf(h), <<>>)}

\* evaluate_with_cached_leaves tabulated over the handles' graphs: the
\* function is pure in (node, vals), so it is computed once per argument.
Evaluations ==
    [h \in HandleIds |->
        [vals \in ReadsOf(h) |-> evaluate_with_cached_leaves(NodeOf(h), <<>>, vals)]]

\* Where the evaluation of the current index stands: at the Leaf arm it
\* enters next, or past the last one.
Standing(p) == Evaluations[hnd[p]][reads[p]]

\* The vectors the producer of the Leaf arm at `at` can return, and the
\* values its fallback sample() can return; one arbitrary element where the
\* closure is not called.
StepProduced(at, lm, c, count) ==
    IF at.kind = "leaf" /\ LeafArmProduces(at.id, lm, c, count)
    THEN DrawnVectors(count) ELSE {<<>>}

StepFresh(at, lm, c1, sample_idx, count) ==
    IF at.kind = "leaf" /\ LeafFallsBack(at.id, lm, c1, sample_idx, count)
    THEN Values ELSE {0}

\* The keys the Leaf arm at `at` passes to the cache: the leaf's key with
\* the call's count when the leaf is in leaf_map, none otherwise.
LeafArmKeys(at, lm, count) ==
    IF at.kind = "leaf" /\ at.id \in lm THEN {Key(at.id, count)} ELSE {}

\* The invocations of sample closures a step at `at` adds to the leaf key k:
\* count by a producer that runs, one by a fallback.
StepDraws(k, at, count, produces, fallsBack) ==
    IF at.kind = "leaf" /\ k = Key(at.id, count)
    THEN (IF produces THEN count ELSE 0) + (IF fallsBack THEN 1 ELSE 0)
    ELSE 0

\* One step of `for sample_idx in 0..count`, inside
\* evaluate_with_cached_leaves(&self.node, &leaf_map, sample_idx, count): the
\* Leaf arm the evaluation stands at makes its cache access and returns its
\* value, and the evaluation runs on to the next Leaf arm; when no Leaf arm
\* is left the value is pushed, or the Conditional arm's panic ends the
\* call.  Steps of other callers can come between two Leaf arms.
EvalStep(p) ==
    /\ pc[p] = "eval"
    /\ ~LoopDone(Len(results[p]), cnt[p])
    /\ LET at == Standing(p)
           sample_idx == Len(results[p])
           isLeaf == at.kind = "leaf"
           produces == isLeaf /\ LeafArmProduces(at.id, leaf_map[p], cache, cnt[p])
       IN  \E produced \in StepProduced(at, leaf_map[p], cache, cnt[p]) :
           LET c1 == IF isLeaf
                     THEN LeafArmCache(at.id, leaf_map[p], cache, cnt[p], produced)
                     ELSE cache
               fallsBack == isLeaf /\ LeafFallsBack(at.id, leaf_map[p], c1, sample_idx, cnt[p])
           IN  \E fresh \in StepFresh(at, leaf_map[p], c1, sample_idx, cnt[p]) :
               LET vals == IF isLeaf
                           THEN reads[p] @@ (at.path :>
                                   EvalLeaf(at.id, leaf_map[p], c1, sample_idx, cnt[p], fresh))
                           ELSE reads[p]
                   r == IF isLeaf THEN Evaluations[hnd[p]][vals] ELSE at
               IN  /\ cache' = IF r.kind = "panic"
                               THEN UnwindCache(c1, RootKey(p), results[p]) ELSE c1
                   /\ draws' = [k \in LeafKeys |->
                                   draws[k] + StepDraws(k, at, cnt[p], produces, fallsBack)]
                   /\ evalDrew' = [evalDrew EXCEPT ![p] = @ \/ produces \/ fallsBack]
                   /\ accessed' = [accessed EXCEPT ![p] = @ \cup LeafArmKeys(at, leaf_map[p], cnt[p])]
                   /\ obs' = [obs EXCEPT ![p] =
                                 IF isLeaf
                                 THEN (IF reads[p] = <<>> THEN {} ELSE @)
                                      \cup {<<at.id, vals[at.path]>>}
                                 ELSE {}]
                   /\ CASE r.kind = "leaf" ->
                               /\ reads' = [reads EXCEPT ![p] = vals]
                               /\ UNCHANGED <<results, pc>>
                        [] r.kind = "value" ->
                               /\ reads' = [reads EXCEPT ![p] = <<>>]
                               /\ results' = [results EXCEPT ![p] = Append(@, r.val)]
                               /\ pc' = pc
                        [] r.kind = "panic" ->
                               /\ reads' = [reads EXCEPT ![p] = <<>>]
                               /\ results' = [results EXCEPT ![p] = <<>>]
                               /\ pc' = [pc EXCEPT ![p] = "panicked"]
    /\ UNCHANGED <<hnd, cnt, leaf_map, todo, ret, rootAtCall, returned, otherPath, calls>>

\* After the loop: get_or_compute_samples(self.id, count, || results.clone()),
\* whose result is dropped, and the return of results.
StoreAndReturn(p) ==
    LET key == Key(hnd[p], cnt[p])
        c1 == StoreRoot(cache, key, results[p])
    IN  /\ pc[p] = "eval"
        /\ LoopDone(Len(results[p]), cnt[p])
        /\ cache' = c1
        /\ accessed' = [accessed EXCEPT ![p] = @ \cup {key}]
        /\ ret' = [ret EXCEPT ![p] = ReturnValue(results[p], c1[key])]
        /\ returned' = returned \cup {<<hnd[p], cnt[p], ReturnValue(results[p], c1[key])>>}
        /\ pc' = [pc EXCEPT ![p] = "returned"]
        /\ results' = [results EXCEPT ![p] = <<>>]
        /\ obs' = [obs EXCEPT ![p] = {}]
        /\ UNCHANGED <<hnd, cnt, leaf_map, todo, reads, draws, rootAtCall, evalDrew,
                       otherPath, calls>>

\* ------------------------------------------- other users of the cache
\* A call of another path that finds its key present returns the stored
\* vector and changes nothing; only the calls that insert are steps here.

\* Uncertain::take_samples_cached(count) called directly on the handle of a
\* bare leaf: the same call the populate loop makes.
TakeSamplesCached(id, count) ==
    /\ Cardinality(otherPath) < MaxExternal
    /\ ~Has(cache, Key(id, count))
    /\ \E produced \in DrawnVectors(count) :
          cache' = GetOrComputeSamples(cache, Key(id, count), produced)
    /\ draws' = [draws EXCEPT ![Key(id, count)] = @ + count]
    /\ otherPath' = otherPath \cup {Key(id, count)}
    /\ UNCHANGED <<procVars, returned, calls>>

\* Another path stores a vector of length count under the key of a derived
\* handle (for instance take_samples_cached on that handle, whose producer
\* samples the graph afresh, without the leaf cache).
OtherPathStore(h, count, produced) ==
    /\ Cardinality(otherPath) < MaxExternal
    /\ ~Has(cache, Key(h, count))
    /\ cache' = GetOrComputeSamples(cache, Key(h, count), produced)
    /\ otherPath' = otherPath \cup {Key(h, count)}
    /\ UNCHANGED <<procVars, draws, returned, calls>>

\* A cache/count mismatch: a vector shorter than count stored under a leaf
\* key by a producer that does not honour the count.
MismatchedStore(id, count, produced) ==
    /\ Cardinality(otherPath) < MaxExternal
    /\ Len(produced) < count
    /\ ~Has(cache, Key(id, count))
    /\ cache' = GetOrComputeSamples(cache, Key(id, count), produced)
    /\ otherPath' = otherPath \cup {Key(id, count)}
    /\ UNCHANGED <<procVars, draws, returned, calls>>

\* ---------------------------------------------------- failing closures
\* The sample closure of a leaf panics at its n-th invocation inside the
\* producer of the populate loop's take_samples_cached.  The panic unwinds
\* through the function; the cache inserts nothing for the key.
DrawFails(p, id) ==
    /\ pc[p] = "populate"
    /\ id \in todo[p]
    /\ ~Has(cache, Key(id, PopulateCount(cnt[p])))
    /\ \E n \in 1..PopulateCount(cnt[p]) :
          draws' = [draws EXCEPT ![Key(id, PopulateCount(cnt[p]))] = @ + n]
    /\ accessed' = [accessed EXCEPT ![p] = @ \cup {Key(id, PopulateCount(cnt[p]))}]
    /\ pc' = [pc EXCEPT ![p] = "failed"]
    /\ UNCHANGED <<cache, hnd, cnt, leaf_map, todo, results, reads, ret, rootAtCall,
                   evalDrew, obs, returned, otherPath, calls>>

\* An operator closure panics while the graph is evaluated at an index: the
\* step's Leaf arm returns (with its cache access and, on a fallback, its
\* call of sample()), and an operator applied to its value before the next
\* Leaf arm panics.  The panic unwinds through the evaluation loop.
OperatorFails(p) ==
    /\ pc[p] = "eval"
    /\ ~LoopDone(Len(results[p]), cnt[p])
    /\ LET at == Standing(p)
           sample_idx == Len(results[p])
           produces == LeafArmProduces(at.id, leaf_map[p], cache, cnt[p])
       IN  /\ at.kind = "leaf"
           /\ \E produced \in StepProduced(at, leaf_map[p], cache, cnt[p]) :
              LET c1 == LeafArmCache(at.id, leaf_map[p], cache, cnt[p], produced)
                  fallsBack == LeafFallsBack(at.id, leaf_map[p], c1, sample_idx, cnt[p])
              IN  \E fresh \in StepFresh(at, leaf_map[p], c1, sample_idx, cnt[p]) :
                  LET vals == reads[p] @@ (at.path :>
                                  EvalLeaf(at.id, leaf_map[p], c1, sample_idx, cnt[p], fresh))
                      r == Evaluations[hnd[p]][vals]
                  IN  /\ r.ops > at.ops
                      /\ cache' = UnwindCache(c1, RootKey(p), results[p])
                      /\ draws' = [k \in LeafKeys |->
                                      draws[k] + StepDraws(k, at, cnt[p], produces, fallsBack)]
                      /\ evalDrew' = [evalDrew EXCEPT ![p] = @ \/ produces \/ fallsBack]
                      /\ accessed' = [accessed EXCEPT ![p] = @ \cup LeafArmKeys(at, leaf_map[p], cnt[p])]
    /\ pc' = [pc EXCEPT ![p] = "failed"]
    /\ results' = [results EXCEPT ![p] = <<>>]
    /\ reads' = [reads EXCEPT ![p] = <<>>]
    /\ obs' = [obs EXCEPT ![p] = {}]
    /\ UNCHANGED <<hnd, cnt, leaf_map, todo, ret, rootAtCall, returned, otherPath, calls>>

ShortVectors == UNION {[1..n -> Values] : n \in 0..(MaxCount - 1)}

\* A call made while no other call is in progress.
SequentialCall(h, count) ==
    /\ \A q \in Procs : Free(q)
    /\ Call(1, h, count)

\* One caller at a time, together with the other users of the cache.
Next ==
    \/ \E h \in HandleIds, count \in Counts : SequentialCall(h, count)
    \/ \E p \in Procs, id \in LeafIds : PopulateLeaf(p, id)
    \/ \E p \in Procs : EvalStep(p)
    \/ \E p \in Procs : StoreAndReturn(p)
    \/ \E id \in LeafIds, count \in Counts : TakeSamplesCached(id, count)
    \/ \E h \in HandleIds \ LeafIds, count \in Counts :
          \E produced \in DrawnVectors(count) : OtherPathStore(h, count, produced)

Spec == Init /\ [][Next]_vars

\* Callers in parallel: the steps of their calls interleave with each other
\* and with direct take_samples_cached calls on the leaves.
NextConcurrent ==
    \/ \E p \in Procs, h \in HandleIds, count \in Counts : Call(p, h, count)
    \/ \E p \in Procs, id \in LeafIds : PopulateLeaf(p, id)
    \/ \E p \in Procs : EvalStep(p)
    \/ \E p \in Procs : StoreAndReturn(p)
    \/ \E id \in LeafIds, count \in Counts : TakeSamplesCached(id, count)

SpecConcurrent == Init /\ [][NextConcurrent]_vars

\* The sequential program with a mismatched leaf entry possible in the cache.
NextMismatch ==
    \/ Next
    \/ \E id \in LeafIds, count \in Counts, produced \in ShortVectors :
          MismatchedStore(id, count, produced)

SpecMismatch == Init /\ [][NextMismatch]_vars

\* The sequential program with sample and operator closures that can panic.
NextFailure ==
    \/ Next
    \/ \E p \in Procs, id \in LeafIds : DrawFails(p, id)
    \/ \E p \in Procs : OperatorFails(p)

SpecFailure == Init /\ [][NextFailure]_vars

\* ------------------------------------------------------------ properties
\* 1-based position, in a cached vector, of the sample index caller p
\* evaluated last or is evaluating (a panic happens at the first index a
\* call evaluates).
LastPosition(p) ==
    IF pc[p] = "panicked" THEN 1
    ELSE Len(results[p]) + (IF reads[p] = <<>> THEN 0 ELSE 1)

\* The graph has a Conditional node somewhere, the branches of another
\* Conditional included.
RECURSIVE ContainsConditional(_)
ContainsConditional(node) ==
    CASE node.kind = "Leaf" -> FALSE
      [] node.kind = "BinaryOp" ->
            ContainsConditional(node.left) \/ ContainsConditional(node.right)
      [] node.kind = "UnaryOp" -> ContainsConditional(node.operand)
      [] node.kind = "Conditional" -> TRUE

\* C1 -- Correlation preservation: while a call evaluates a sample index,
\* every occurrence of a leaf evaluates to one value, the element at that
\* index of the vector cached for (leaf id, count); so the graph s1 - s1
\* yields zero at every index, in the vector being built and in every vector
\* returned.
C1_CorrelationPreservation ==
    /\ \A p \in Procs :
        /\ \A o1 \in obs[p], o2 \in obs[p] : o1[1] = o2[1] => o1[2] = o2[2]
        /\ \A o \in obs[p] :
              /\ Has(cache, Key(o[1], cnt[p]))
              /\ LastPosition(p) \in 1..Len(cache[Key(o[1], cnt[p])])
              /\ o[2] = cache[Key(o[1], cnt[p])][LastPosition(p)]
        /\ hnd[p] = "hSub" => \A i \in 1..Len(results[p]) : results[p][i] = 0
    /\ \A r \in returned : r[1] = "hSub" => \A i \in 1..Len(r[3]) : r[3][i] = 0

\* A call on s1 - s1 with count 2 has evaluated its second index against a
\* cached vector of two different draws.
C1_Witness ==
    \E p \in Procs :
        /\ hnd[p] = "hSub" /\ cnt[p] = 2 /\ pc[p] = "eval"
        /\ results[p] = <<0, 0>>
        /\ Has(cache, Key("s1", 2)) /\ cache[Key("s1", 2)] = <<1, 2>>
        /\ obs[p] = {<<"s1", 2>>}

\* C2 -- Determinism after cache: any two completed calls with the same
\* handle and the same count returned the same vector, whatever other cache
\* operations came before or between them.
C2_DeterminismAfterCache ==
    \A r1 \in returned, r2 \in returned :
        (r1[1] = r2[1] /\ r1[2] = r2[2]) => r1[3] = r2[3]

\* Two calls on hAdd with count 2 have returned, with a store by another
\* path in the same behaviour: the second call found the root entry the
\* first one had stored.
C2_Witness ==
    /\ calls = 2
    /\ \A p \in Procs : Free(p)
    /\ pc[1] = "returned" /\ hnd[1] = "hAdd" /\ cnt[1] = 2
    /\ rootAtCall[1] /\ Key("hAdd", 2) \notin otherPath
    /\ otherPath # {}
    /\ \E r \in returned : returned = {r} /\ r[1] = "hAdd" /\ r[2] = 2

\* C3 -- Top-level short-circuit: a call that begins while the cache holds
\* an entry for (handle id, count) does not go on to the leaves or to the
\* evaluation, and returns the stored vector.
C3_TopLevelShortCircuit ==
    \A p \in Procs :
        rootAtCall[p] =>
            /\ pc[p] \notin {"populate", "eval", "panicked"}
            /\ pc[p] = "returned" => ret[p] = cache[RootKey(p)]

\* C4 -- Idempotent population: after a call has returned, the cache holds
\* an entry for (handle id, count) and it equals the returned vector, also
\* when another path stored the entry.
C4_IdempotentPopulation ==
    \A p \in Procs :
        pc[p] = "returned" =>
            /\ Has(cache, RootKey(p))
            /\ cache[RootKey(p)] = ret[p]

\* C5 -- Draws per leaf key: the sample closure of a leaf has been invoked
\* for the key (leaf id, count) count times if the key holds an entry and
\* not at all otherwise, however often the leaf occurs in the graphs and
\* however many calls used the key; a call past its populate loop has an
\* entry for every leaf it collected.
C5_DrawsPerLeafKey ==
    /\ \A k \in LeafKeys : draws[k] = IF Has(cache, k) THEN k[2] ELSE 0
    /\ \A p \in Procs :
          pc[p] \in {"eval", "returned", "panicked"} =>
              \A id \in leaf_map[p] : Has(cache, Key(id, cnt[p]))

\* Two calls with count 2 on s1 - s1, where s1 occurs twice, have returned
\* (the second found the root entry of the first) and s1 was drawn twice in
\* all.
C5_Witness ==
    /\ calls = 2
    /\ otherPath = {}
    /\ returned = {<<"hSub", 2, <<0, 0>>>>}
    /\ \A p \in Procs : Free(p)
    /\ pc[1] = "returned" /\ hnd[1] = "hSub" /\ cnt[1] = 2
    /\ rootAtCall[1]
    /\ draws[Key("s1", 2)] = 2

\* C6 -- Concurrency safety of leaf draws: under every interleaving, a leaf
\* key is never drawn for more than count times, exactly count times once it
\* holds an entry, and two callers that are at the same sample index with the
\* same count have seen the same value for every leaf they share.
C6_ConcurrentDraws ==
    /\ \A k \in LeafKeys : draws[k] <= k[2] /\ (Has(cache, k) => draws[k] = k[2])
    /\ \A p \in Procs, q \in Procs :
          (cnt[p] = cnt[q] /\ LastPosition(p) = LastPosition(q)) =>
              \A o1 \in obs[p], o2 \in obs[q] : o1[1] = o2[1] => o1[2] = o2[2]

\* Two callers on different handles sharing s1 are both inside their
\* evaluation loops with count 2, and s1 was drawn twice.
C6_Witness ==
    /\ pc[1] = "eval" /\ pc[2] = "eval"
    /\ hnd[1] = "hSub" /\ hnd[2] = "hAdd"
    /\ cnt[1] = 2 /\ cnt[2] = 2
    /\ Len(results[1]) = 2 /\ Len(results[2]) = 2
    /\ draws[Key("s1", 2)] = 2

\* C7 -- At-most-once evaluation of the root key: of two callers that began
\* a call on the same handle with the same positive count while the root key
\* was absent, at most one runs the evaluation loop.
C7_AtMostOneEvaluator ==
    \A p \in Procs, q \in Procs :
        (/\ p # q
         /\ hnd[p] = hnd[q] /\ cnt[p] = cnt[q] /\ cnt[p] > 0
         /\ ~rootAtCall[p] /\ ~rootAtCall[q]
         /\ pc[p] = "eval" /\ pc[q] = "eval")
        => ~(Len(results[p]) >= 1 /\ Len(results[q]) >= 1)

\* C8 -- Zero count: a call with count 0 never panics, evaluates nothing,
\* draws nothing and returns the empty vector, for every graph.
C8_ZeroCount ==
    /\ \A id \in LeafIds : draws[Key(id, 0)] = 0
    /\ \A p \in Procs :
          cnt[p] = 0 =>
              /\ pc[p] # "panicked"
              /\ ~evalDrew[p]
              /\ results[p] = <<>>
              /\ obs[p] = {}
              /\ pc[p] = "returned" => ret[p] = <<>>
    /\ \A r \in returned : r[2] = 0 => r[3] = <<>>

\* A call with count 0 on the graph with a Conditional has returned.
C8_Witness ==
    \E p \in Procs :
        /\ hnd[p] = "hCond" /\ cnt[p] = 0 /\ pc[p] = "returned"
        /\ <<"hCond", 0, <<>>>> \in returned
        /\ Has(cache, Key("s2", 0))

\* C9 -- No re-draw during evaluation: no call invokes a sample closure
\* while it evaluates the graph, also when a cached leaf vector is shorter
\* than count.
C9_NoRedrawDuringEvaluation ==
    \A p \in Procs : ~evalDrew[p]

\* C10 -- Unsupported Conditional: a call with count > 0 panics only on a
\* graph that contains a Conditional, and on such a graph it never obtains
\* the value of any index nor returns.
C10_PanicIffConditional ==
    \A p \in Procs :
        /\ pc[p] = "panicked" => (cnt[p] > 0 /\ ContainsConditional(NodeOf(hnd[p])))
        /\ (cnt[p] > 0 /\ ContainsConditional(NodeOf(hnd[p]))) =>
              /\ pc[p] # "returned"
              /\ results[p] = <<>>

\* A call with count 2 on the graph with a Conditional under a BinaryOp and
\* a UnaryOp has panicked.
C10_Witness ==
    \E p \in Procs :
        /\ hnd[p] = "hCond" /\ cnt[p] = 2 /\ pc[p] = "panicked"

\* C11 -- Cache entry immutability: no step removes an entry or changes
\* the vector an entry holds; every write goes through get_or_compute,
\* which leaves a present key as it is.
C11_EntriesImmutable ==
    [][\A k \in DOMAIN cache : Has(cache', k) /\ cache'[k] = cache[k]]_vars

\* A call on hMap with count 2 has returned <<2, 4>> while the root key
\* holds the vector <<1, 1>> another path stored: the call's store was a hit
\* and left it alone.
C11_Witness ==
    /\ pc[1] = "returned" /\ hnd[1] = "hMap" /\ cnt[1] = 2
    /\ ret[1] = <<2, 4>>
    /\ Key("hMap", 2) \in otherPath
    /\ cache[Key("hMap", 2)] = <<1, 1>>

\* The ids of the leaves of the graph, the branches of a Conditional
\* included.
RECURSIVE SourcesOf(_)
SourcesOf(node) ==
    CASE node.kind = "Leaf" -> {node.id}
      [] node.kind = "BinaryOp" -> SourcesOf(node.left) \cup SourcesOf(node.right)
      [] node.kind = "UnaryOp" -> SourcesOf(node.operand)
      [] node.kind = "Conditional" -> SourcesOf(node.if_true) \cup SourcesOf(node.if_false)

\* C12 -- Populate-before-evaluate barrier: a call is in its evaluation loop
\* only when the populate loop has visited every leaf, and then every leaf of
\* the graph has an entry of count samples for the call's count; no
\* evaluation step had to produce a leaf vector or draw a value itself.
C12_PopulateBeforeEvaluate ==
    \A p \in Procs :
        /\ pc[p] = "eval" =>
              /\ todo[p] = {}
              /\ \A id \in SourcesOf(NodeOf(hnd[p])) :
                    /\ Has(cache, Key(id, cnt[p]))
                    /\ Len(cache[Key(id, cnt[p])]) = cnt[p]
        /\ pc[p] \in {"eval", "panicked", "returned"} => ~evalDrew[p]

\* A call on hAdd (leaves s1 and s2) with count 2 has evaluated its first
\* index after its populate loop drew both leaves.
C12_Witness ==
    /\ pc[1] = "eval" /\ hnd[1] = "hAdd" /\ cnt[1] = 2
    /\ Len(results[1]) = 1
    /\ otherPath = {}
    /\ draws[Key("s1", 2)] = 2 /\ draws[Key("s2", 2)] = 2

\* The reference evaluation of a graph without Conditional nodes, given
\* the value of each leaf: Map applies its function, Filter passes its
\* operand through, BinaryOp applies its operation to both children.
RECURSIVE Reference(_, _)
Reference(node, leafValue) ==
    CASE node.kind = "Leaf" -> leafValue[node.id]
      [] node.kind = "UnaryOp" ->
            IF node.operation = "Filter"
            THEN Reference(node.operand, leafValue)
            ELSE 2 * Reference(node.operand, leafValue)
      [] node.kind = "BinaryOp" ->
            IF node.operation = "Sub"
            THEN Reference(node.left, leafValue) - Reference(node.right, leafValue)
            ELSE Reference(node.left, leafValue) + Reference(node.right, leafValue)

\* C13 -- Evaluation result: a call on a graph without Conditional nodes
\* returns a vector of length count whose element i is the reference
\* evaluation of the graph with every leaf replaced by element i of its
\* cached vector; the same holds of the part of the vector built so far.
C13_EvaluationResult ==
    /\ \A r \in returned :
          ~ContainsConditional(NodeOf(r[1])) =>
              /\ Len(r[3]) = r[2]
              /\ \A i \in 1..r[2] :
                    r[3][i] = Reference(NodeOf(r[1]),
                                        [id \in SourcesOf(NodeOf(r[1])) |->
                                            cache[Key(id, r[2])][i]])
    /\ \A p \in Procs :
          (pc[p] = "eval" /\ ~ContainsConditional(NodeOf(hnd[p]))) =>
              \A i \in 1..Len(results[p]) :
                  results[p][i] = Reference(NodeOf(hnd[p]),
                                            [id \in SourcesOf(NodeOf(hnd[p])) |->
                                                cache[Key(id, cnt[p])][i]])

\* Map(x * 2) over s1 cached as <<1, 2>> returned <<2, 4>>, and Filter(s1) + s2
\* with s2 cached as <<2, 2>> returned <<3, 4>>.
C13_Witness ==
    /\ Has(cache, Key("s1", 2)) /\ cache[Key("s1", 2)] = <<1, 2>>
    /\ Has(cache, Key("s2", 2)) /\ cache[Key("s2", 2)] = <<2, 2>>
    /\ <<"hMap", 2, <<2, 4>>>> \in returned
    /\ <<"hAdd", 2, <<3, 4>>>> \in returned

\* The leaves that occur outside every Conditional, and the leaves that
\* occur only inside branches of Conditional nodes.
RECURSIVE OutsideSources(_)
OutsideSources(node) ==
    CASE node.kind = "Leaf" -> {node.id}
      [] node.kind = "BinaryOp" -> OutsideSources(node.left) \cup OutsideSources(node.right)
      [] node.kind = "UnaryOp" -> OutsideSources(node.operand)
      [] node.kind = "Conditional" -> {}

BranchOnlySources(node) == SourcesOf(node) \ OutsideSources(node)

\* The step is a step of caller p's call.
StepOf(p) ==
    /\ pc[p] \in {"populate", "eval"}
    /\ <<pc[p], todo[p], results[p], reads[p]>>' # <<pc[p], todo[p], results[p], reads[p]>>

\* C14 -- Untaken branch is not forced: no step of a call draws for, or
\* creates the entry of, a leaf that occurs only inside the branches of a
\* Conditional (this function never selects a branch).
C14_UntakenBranchNotForced ==
    [][\A p \in Procs :
          StepOf(p) =>
              \A id \in BranchOnlySources(NodeOf(hnd[p])) :
                  /\ draws'[Key(id, cnt[p])] = draws[Key(id, cnt[p])]
                  /\ Has(cache', Key(id, cnt[p])) => Has(cache, Key(id, cnt[p]))]_vars

\* C15 -- Frame of a call: a step of a call with count n adds entries only
\* under the keys (leaf id, n) of the leaves of its graph and (handle id, n),
\* so none for an intermediate node; every key the call has passed to the
\* cache, to read or to store, is one of these, so it reads no entry of
\* another count; and it leaves alone every entry, and the draw count of
\* every leaf key, whose count is not n.
C15_FrameOfCall ==
    [][\A p \in Procs :
          StepOf(p) =>
              /\ (DOMAIN cache') \ (DOMAIN cache) \subseteq
                    {Key(id, cnt[p]) : id \in SourcesOf(NodeOf(hnd[p]))} \cup {RootKey(p)}
              /\ accessed'[p] \subseteq
                    {Key(id, cnt[p]) : id \in SourcesOf(NodeOf(hnd[p]))} \cup {RootKey(p)}
              /\ \A k \in accessed'[p] : k[2] = cnt[p]
              /\ \A k \in DOMAIN cache :
                    k[2] # cnt[p] => (Has(cache', k) /\ cache'[k] = cache[k])
              /\ \A k \in LeafKeys : k[2] # cnt[p] => draws'[k] = draws[k]]_vars

\* Calls on hAdd with count 2 and then with count 1 have returned: the cache
\* holds the leaf and root entries of both counts, and nothing else; the
\* second call passed the three keys of count 1 to the cache.
C15_Witness ==
    /\ pc[1] = "returned" /\ hnd[1] = "hAdd" /\ cnt[1] = 1
    /\ accessed[1] = {Key("s1", 1), Key("s2", 1), Key("hAdd", 1)}
    /\ DOMAIN cache = {Key("s1", 1), Key("s2", 1), Key("hAdd", 1),
                       Key("s1", 2), Key("s2", 2), Key("hAdd", 2)}

\* C16 -- No partial entry on failure: when a call has ended in a failure
\* (a sample closure panicked in the populate loop, an operator closure
\* panicked during evaluation, or the Conditional arm was reached), the root
\* key holds an entry only if it held one when the call began or another
\* path stored it, the call has returned nothing, and every leaf entry has
\* as many samples as its key's count.
C16_NoPartialEntryOnFailure ==
    /\ \A p \in Procs :
          pc[p] \in {"panicked", "failed"} =>
              /\ Has(cache, RootKey(p)) => (rootAtCall[p] \/ RootKey(p) \in otherPath)
              /\ ret[p] = <<>>
              /\ results[p] = <<>>
    /\ \A k \in DOMAIN cache : k \in LeafKeys => Len(cache[k]) = k[2]

\* An operator closure failed during the evaluation of a call on hAdd with
\* count 2 (no other path has stored anything): the leaf entries the call
\* created are in the cache, the root key has none.
C16_Witness ==
    /\ pc[1] = "failed" /\ hnd[1] = "hAdd" /\ cnt[1] = 2
    /\ otherPath = {} /\ calls = 1
    /\ Has(cache, Key("s1", 2)) /\ Has(cache, Key("s2", 2))
    /\ draws[Key("s1", 2)] = 2
    /\ ~Has(cache, Key("hAdd", 2))

\* C17 -- Bare-source handle: when a call on a handle that wraps a bare
\* leaf of its own id returns, the root key already holds an entry, the
\* store after the loop inserts nothing, and the returned vector is that
\* entry: one entry serves as the leaf's and as the root's.
C17_BareSourceHandle ==
    [][\A p \in Procs :
          (/\ NodeOf(hnd[p]) = Leaf(hnd[p])
           /\ pc[p] = "eval" /\ pc'[p] = "returned")
          => /\ leaf_map[p] = {hnd[p]}
             /\ Has(cache, RootKey(p))
             /\ cache' = cache
             /\ ret'[p] = cache[RootKey(p)]]_vars

\* A call on the bare leaf s1 with count 2 has returned <<1, 2>>, and the
\* cache holds the single entry (s1, 2) -> <<1, 2>>.
C17_Witness ==
    /\ pc[1] = "returned" /\ hnd[1] = "s1" /\ cnt[1] = 2
    /\ ret[1] = <<1, 2>>
    /\ DOMAIN cache = {Key("s1", 2)}
    /\ cache[Key("s1", 2)] = <<1, 2>>

====
